---- MODULE Spec2Model ----
(***************************************************************************)
(* Model of fbpcs' InputDataValidationStageService                         *)
(* (private_computation/service/input_data_validation_stage_service.py).   *)
(*                                                                         *)
(* A Python str is a sequence of symbols: single characters, or a literal  *)
(* chunk of the source text kept as one symbol ("--region=").  None is a   *)
(* record with present = FALSE, so that every collection stays uniformly   *)
(* typed.                                                                  *)
(***************************************************************************)
EXTENDS Integers, Sequences, FiniteSets, TLC

VARIABLES
    config,          \* self._pc_validator_config (PCValidatorConfig)
    pc_instance,     \* the PrivateComputationInstance handed to the service
    resolved,        \* what the status-aggregation collaborator reports now
    accepted,        \* the containers the backend has started, in order
    call,            \* the observable effects of the latest run_async/get_status
    cli              \* the latest run of pc_pre_validation_cli.main

vars == <<config, pc_instance, resolved, accepted, call, cli>>

----------------------------------------------------------------------------
(* Bounds and input sets *)

\* the number of records the stage history may hold
MaxHistory == 2

\* 20 minutes
PRE_VALIDATION_CHECKS_TIMEOUT == 1200

PC_PRE_VALIDATION == "pc_pre_validation"

Roles == {"PARTNER", "PUBLISHER"}

INPUT_DATA_VALIDATION_COMPLETED == "INPUT_DATA_VALIDATION_COMPLETED"
INPUT_DATA_VALIDATION_FAILED == "INPUT_DATA_VALIDATION_FAILED"

Statuses ==
    { "CREATED", "INPUT_DATA_VALIDATION_STARTED",
      INPUT_DATA_VALIDATION_COMPLETED, INPUT_DATA_VALIDATION_FAILED }

Regions == { <<"u", "s">> }

Cluster == <<"c", "l">>

InputPaths == { <<"/", "x">>, <<"x", " ", "y">> }

StageNames == { "INPUT_DATA_VALIDATION", "PC_PRE_VALIDATION" }

\* ids the backend may give a container: empty, without "/", ending in "/",
\* and a path of three segments
ContainerIds ==
    { <<>>, <<"t">>, <<"a", "/">>, <<"a", "/", "b", "/", "t">> }

NoneContainer == [present |-> FALSE, instance_id |-> <<>>, status |-> "None"]

ContainerInstance(id) ==
    [present |-> TRUE, instance_id |-> id, status |-> "STARTED"]

\* data_validation_threshold_overrides: None, {} or an ordered mapping
NoneOverrides == [present |-> FALSE, items |-> <<>>]

Overrides(items) == [present |-> TRUE, items |-> items]

ThresholdOverrides ==
    { NoneOverrides,
      Overrides(<<>>),
      Overrides(<< [key |-> <<"k">>, value |-> 10] >>),
      Overrides(<< [key |-> <<"m">>, value |-> 7], [key |-> <<"k">>, value |-> 10] >>) }

StageStateInstance(instance_id, stage_name, containers) ==
    [ kind |-> "StageStateInstance", instance_id |-> instance_id,
      stage_name |-> stage_name, containers |-> containers ]

\* a record another stage left in the history (PIDInstance, PCSMPCInstance)
OtherInstance(instance_id) ==
    [ kind |-> "PIDInstance", instance_id |-> instance_id,
      stage_name |-> "PID", containers |-> <<>> ]

InstanceId == <<"i", "1">>

\* the histories an instance may arrive with
InitialHistories ==
    { <<>>,
      << OtherInstance(InstanceId) >>,
      << StageStateInstance(InstanceId, "PC_PRE_VALIDATION", <<>>) >>,
      << StageStateInstance(InstanceId, "PC_PRE_VALIDATION", << NoneContainer >>) >> }

----------------------------------------------------------------------------
(* Python's str and json operations *)

RECURSIVE Join(_, _)
\* sep.join(parts)
Join(sep, parts) ==
    IF parts = <<>> THEN <<>>
    ELSE IF Len(parts) = 1 THEN parts[1]
    ELSE parts[1] \o sep \o Join(sep, Tail(parts))

RECURSIVE Split(_, _)
\* s.split(sep) for a one-symbol separator
Split(s, sep) ==
    IF \A i \in 1..Len(s) : s[i] # sep THEN << s >>
    ELSE LET i == CHOOSE j \in 1..Len(s) :
                      s[j] = sep /\ \A k \in 1..(j - 1) : s[k] # sep
         IN  << SubSeq(s, 1, i - 1) >> \o Split(SubSeq(s, i + 1, Len(s)), sep)

\* parts[-1]
Last(parts) == parts[Len(parts)]

Digit(d) ==
    CASE d = 0 -> "0" [] d = 1 -> "1" [] d = 2 -> "2" [] d = 3 -> "3"
      [] d = 4 -> "4" [] d = 5 -> "5" [] d = 6 -> "6" [] d = 7 -> "7"
      [] d = 8 -> "8" [] d = 9 -> "9"

RECURSIVE Str(_)
\* str(n) of a natural number
Str(n) == IF n < 10 THEN << Digit(n) >> ELSE Str(n \div 10) \o << Digit(n % 10) >>

\* json.dumps(mapping) with the default separators ", " and ": "
JsonDumps(items) ==
    LET Pair(p) == <<"\"">> \o p.key \o <<"\"">> \o <<":", " ">> \o Str(p.value)
    IN  <<"{">> \o Join(<<",", " ">>, [i \in 1..Len(items) |-> Pair(items[i])])
               \o <<"}">>

----------------------------------------------------------------------------
(* The collaborators *)

NoRequest == [package_name |-> "none", timeout |-> 0, cmd_args |-> <<>>]

\* OneDockerService.start_container: the backend rejects the request (raises)
\* or returns the container it started, under the id it chose
start_container(accept, id, package_name, timeout, cmd_args) ==
    [ raised |-> ~accept,
      request |-> [package_name |-> package_name, timeout |-> timeout,
                   cmd_args |-> cmd_args],
      container |-> IF accept THEN ContainerInstance(id) ELSE NoneContainer ]

\* utils.get_pc_status_from_stage_state: the pc status derived from the stage
\* history and the backend's live job statuses; its policy is not visible, so
\* it yields whatever the backend side currently resolves to
get_pc_status_from_stage_state(inst, resolvedNow) == resolvedNow

\* onedocker_svc.container_svc.get_cluster()
get_cluster == Cluster

----------------------------------------------------------------------------
(* InputDataValidationStageService *)

\* a gate that opens when either condition holds
_should_run_pre_validation_or(cfg, inst) ==
    cfg.pc_pre_validator_enabled \/ inst.role = "PARTNER"

_should_run_pre_validation(cfg, inst) ==
    cfg.pc_pre_validator_enabled /\ inst.role = "PARTNER"

\* an argument list with the region ahead of the cloud provider
cmd_args_list_swapped(cfg, inst) ==
    LET region == cfg.region
        cmd_args == << <<"--input-file-path=">> \o inst.input_path,
                       <<"--region=">> \o region,
                       <<"--cloud-provider=AWS">> >>
        threshold_overrides == cfg.data_validation_threshold_overrides
    IN  IF threshold_overrides.present /\ threshold_overrides.items # <<>>
        THEN Append(cmd_args,
                    <<"--valid-threshold-override=", "'">>
                        \o JsonDumps(threshold_overrides.items) \o <<"'">>)
        ELSE cmd_args

\* an argument list that tests the mapping against None, not for emptiness
cmd_args_list_not_none(cfg, inst) ==
    LET region == cfg.region
        cmd_args == << <<"--input-file-path=">> \o inst.input_path,
                       <<"--cloud-provider=AWS">>,
                       <<"--region=">> \o region >>
        threshold_overrides == cfg.data_validation_threshold_overrides
    IN  IF threshold_overrides.present
        THEN Append(cmd_args,
                    <<"--valid-threshold-override=", "'">>
                        \o JsonDumps(threshold_overrides.items) \o <<"'">>)
        ELSE cmd_args

\* cmd_args, the list built before the join
cmd_args_list(cfg, inst) ==
    LET region == cfg.region
        cmd_args == << <<"--input-file-path=">> \o inst.input_path,
                       <<"--cloud-provider=AWS">>,
                       <<"--region=">> \o region >>
        threshold_overrides == cfg.data_validation_threshold_overrides
    IN  IF threshold_overrides.present /\ threshold_overrides.items # <<>>
        THEN Append(cmd_args,
                    <<"--valid-threshold-override=", "'">>
                        \o JsonDumps(threshold_overrides.items) \o <<"'">>)
        ELSE cmd_args

\* cmd_args_str
cmd_args_str(cfg, inst) == Join(<<" ">>, cmd_args_list(cfg, inst))

\* a launcher that records the stage state twice
run_pc_pre_validation_cli_twice(cfg, inst, accept, id) ==
    LET started == start_container(accept, id, PC_PRE_VALIDATION,
                                   PRE_VALIDATION_CHECKS_TIMEOUT,
                                   cmd_args_str(cfg, inst))
        stage_state == StageStateInstance(inst.instance_id, inst.current_stage,
                                          << started.container >>)
    IN  [ raised |-> started.raised,
          starts |-> 1,
          request |-> started.request,
          container |-> started.container,
          instances |-> IF started.raised THEN inst.instances
                        ELSE inst.instances \o << stage_state, stage_state >> ]

\* a launcher that catches the backend's error and records the launch anyway
run_pc_pre_validation_cli_swallow(cfg, inst, accept, id) ==
    LET started == start_container(accept, id, PC_PRE_VALIDATION,
                                   PRE_VALIDATION_CHECKS_TIMEOUT,
                                   cmd_args_str(cfg, inst))
        stage_state == StageStateInstance(inst.instance_id, inst.current_stage,
                                          << started.container >>)
    IN  [ raised |-> FALSE,
          starts |-> 1,
          request |-> started.request,
          container |-> started.container,
          instances |-> Append(inst.instances, stage_state) ]

\* a launcher that puts the new stage state at the head of the history
run_pc_pre_validation_cli_prepend(cfg, inst, accept, id) ==
    LET started == start_container(accept, id, PC_PRE_VALIDATION,
                                   PRE_VALIDATION_CHECKS_TIMEOUT,
                                   cmd_args_str(cfg, inst))
        stage_state == StageStateInstance(inst.instance_id, inst.current_stage,
                                          << started.container >>)
    IN  [ raised |-> started.raised,
          starts |-> 1,
          request |-> started.request,
          container |-> started.container,
          instances |-> IF started.raised THEN inst.instances
                        ELSE << stage_state >> \o inst.instances ]

\* a launcher that assigns the history instead of appending to it
run_pc_pre_validation_cli_replace(cfg, inst, accept, id) ==
    LET started == start_container(accept, id, PC_PRE_VALIDATION,
                                   PRE_VALIDATION_CHECKS_TIMEOUT,
                                   cmd_args_str(cfg, inst))
        stage_state == StageStateInstance(inst.instance_id, inst.current_stage,
                                          << started.container >>)
    IN  [ raised |-> started.raised,
          starts |-> 1,
          request |-> started.request,
          container |-> started.container,
          instances |-> IF started.raised THEN inst.instances
                        ELSE << stage_state >> ]

\* a launcher that skips a stage state the history already holds
run_pc_pre_validation_cli_dedup(cfg, inst, accept, id) ==
    LET started == start_container(accept, id, PC_PRE_VALIDATION,
                                   PRE_VALIDATION_CHECKS_TIMEOUT,
                                   cmd_args_str(cfg, inst))
        stage_state == StageStateInstance(inst.instance_id, inst.current_stage,
                                          << started.container >>)
    IN  [ raised |-> started.raised,
          starts |-> 1,
          request |-> started.request,
          container |-> started.container,
          instances |-> IF started.raised
                           \/ \E i \in 1..Len(inst.instances) :
                                  inst.instances[i] = stage_state
                        THEN inst.instances
                        ELSE Append(inst.instances, stage_state) ]

\* a launcher that names the stage itself instead of asking the instance
run_pc_pre_validation_cli_fixed_stage(cfg, inst, accept, id) ==
    LET started == start_container(accept, id, PC_PRE_VALIDATION,
                                   PRE_VALIDATION_CHECKS_TIMEOUT,
                                   cmd_args_str(cfg, inst))
        stage_state == StageStateInstance(inst.instance_id,
                                          "INPUT_DATA_VALIDATION",
                                          << started.container >>)
    IN  [ raised |-> started.raised,
          starts |-> 1,
          request |-> started.request,
          container |-> started.container,
          instances |-> IF started.raised THEN inst.instances
                        ELSE Append(inst.instances, stage_state) ]

\* a launcher that returns without recording the stage state
run_pc_pre_validation_cli_no_append(cfg, inst, accept, id) ==
    LET started == start_container(accept, id, PC_PRE_VALIDATION,
                                   PRE_VALIDATION_CHECKS_TIMEOUT,
                                   cmd_args_str(cfg, inst))
    IN  [ raised |-> started.raised,
          starts |-> 1,
          request |-> started.request,
          container |-> started.container,
          instances |-> inst.instances ]

\* the effects of one run_pc_pre_validation_cli call
run_pc_pre_validation_cli(cfg, inst, accept, id) ==
    LET started == start_container(accept, id, PC_PRE_VALIDATION,
                                   PRE_VALIDATION_CHECKS_TIMEOUT,
                                   cmd_args_str(cfg, inst))
        stage_state == StageStateInstance(inst.instance_id, inst.current_stage,
                                          << started.container >>)
    IN  [ raised |-> started.raised,
          starts |-> 1,
          request |-> started.request,
          container |-> started.container,
          instances |-> IF started.raised THEN inst.instances
                        ELSE Append(inst.instances, stage_state) ]

\* a run path that launches without asking the gate
run_async_ungated(cfg, inst, accept, id) ==
    run_pc_pre_validation_cli(cfg, inst, accept, id)

\* the effects of one run_async call
run_async(cfg, inst, accept, id) ==
    IF _should_run_pre_validation(cfg, inst)
    THEN run_pc_pre_validation_cli(cfg, inst, accept, id)
    ELSE [ raised |-> FALSE, starts |-> 0, request |-> NoRequest,
           container |-> NoneContainer, instances |-> inst.instances ]

failed_task_link(region, cluster, task_id) ==
    <<"https://">> \o region \o <<".console.aws.amazon.com/ecs/home?region=">>
        \o region \o <<"#/clusters/">> \o cluster \o <<"/tasks/">> \o task_id
        \o <<"/details">>

LinkMessage(task_id, link) ==
    <<"[PCPreValidation] - stage failed because of some failed validations. Please check the logs in ECS for task id '">>
        \o task_id \o <<"' to see the validation issues:\n", "Failed task link: ">>
        \o link

GenericMessage ==
    <<"[PCPreValidation] - stage failed because of some failed validations. Please check the logs in ECS">>

ErrorLog(message) == [level |-> "error", message |-> message]

\* a task id that is only taken from an id holding a "/"
task_id_of_needs_slash(inst) ==
    IF inst.instances # <<>>
    THEN LET last_instance == Last(inst.instances)
         IN  IF last_instance.kind = "StageStateInstance"
             THEN LET last_container == Last(last_instance.containers)
                      parts == Split(last_container.instance_id, "/")
                  IN  IF last_container.present /\ Len(parts) > 1
                      THEN Last(parts)
                      ELSE <<>>
             ELSE <<>>
    ELSE <<>>

\* a task id taken from the first segment of the id, split("/")[0]
task_id_of_first_segment(inst) ==
    IF inst.instances # <<>>
    THEN LET last_instance == Last(inst.instances)
         IN  IF last_instance.kind = "StageStateInstance"
             THEN LET last_container == Last(last_instance.containers)
                  IN  IF last_container.present
                      THEN Split(last_container.instance_id, "/")[1]
                      ELSE <<>>
             ELSE <<>>
    ELSE <<>>

\* a task id that falls back on the segment before a trailing "/"
task_id_of_skip_trailing(inst) ==
    IF inst.instances # <<>>
    THEN LET last_instance == Last(inst.instances)
         IN  IF last_instance.kind = "StageStateInstance"
             THEN LET last_container == Last(last_instance.containers)
                      parts == Split(last_container.instance_id, "/")
                  IN  IF last_container.present
                      THEN IF Last(parts) = <<>> /\ Len(parts) > 1
                           THEN parts[Len(parts) - 1]
                           ELSE Last(parts)
                      ELSE <<>>
             ELSE <<>>
    ELSE <<>>

\* task_id as lines 124-133 compute it
task_id_of(inst) ==
    IF inst.instances # <<>>
    THEN LET last_instance == Last(inst.instances)
         IN  IF last_instance.kind = "StageStateInstance"
             THEN LET last_container == Last(last_instance.containers)
                  IN  IF last_container.present
                      THEN Last(Split(last_container.instance_id, "/"))
                      ELSE <<>>
             ELSE <<>>
    ELSE <<>>

\* containers[-1] of an empty list raises IndexError
task_id_raises(inst) ==
    /\ inst.instances # <<>>
    /\ Last(inst.instances).kind = "StageStateInstance"
    /\ Last(inst.instances).containers = <<>>

\* lines 120-150: the status path when the stage is enabled for the instance
get_status_enabled(cfg, inst, resolvedNow) ==
    LET instance_status == get_pc_status_from_stage_state(inst, resolvedNow)
        seen == IF inst.instances # <<>> THEN << Last(inst.instances) >>
                ELSE <<>>
    IN  IF task_id_raises(inst)
        THEN [ outcome |-> "raised", result |-> "none",
               agg |-> instance_status, aggCalls |-> 1, histRead |-> TRUE,
               seen |-> seen, task_id |-> <<>>, clusterCalls |-> 0,
               logs |-> <<>>, starts |-> 0, instances |-> inst.instances ]
        ELSE LET task_id == task_id_of(inst)
                 failed == instance_status = INPUT_DATA_VALIDATION_FAILED
                 linked == failed /\ task_id # <<>>
             IN  [ outcome |-> "returned", result |-> instance_status,
                   agg |-> instance_status, aggCalls |-> 1,
                   histRead |-> TRUE, seen |-> seen, task_id |-> task_id,
                   clusterCalls |-> IF linked THEN 1 ELSE 0,
                   logs |-> IF linked
                            THEN << ErrorLog(LinkMessage(task_id,
                                      failed_task_link(cfg.region, get_cluster,
                                                       task_id))) >>
                            ELSE IF failed THEN << ErrorLog(GenericMessage) >>
                            ELSE <<>>,
                   starts |-> 0, instances |-> inst.instances ]

\* line 152: the stage is skipped for the instance
get_status_skipped(inst) ==
    [ outcome |-> "returned", result |-> INPUT_DATA_VALIDATION_COMPLETED,
      agg |-> "none", aggCalls |-> 0, histRead |-> FALSE, seen |-> <<>>,
      task_id |-> <<>>, clusterCalls |-> 0, logs |-> <<>>, starts |-> 0,
      instances |-> inst.instances ]

\* a status path that derives the status without asking the gate
get_status_ungated(cfg, inst, resolvedNow) ==
    get_status_enabled(cfg, inst, resolvedNow)

\* a status path that takes the last record off the history, instances.pop()
get_status_pop(cfg, inst, resolvedNow) ==
    LET s == IF _should_run_pre_validation(cfg, inst)
             THEN get_status_enabled(cfg, inst, resolvedNow)
             ELSE get_status_skipped(inst)
    IN  [ s EXCEPT !.instances =
              IF _should_run_pre_validation(cfg, inst) /\ inst.instances # <<>>
              THEN SubSeq(inst.instances, 1, Len(inst.instances) - 1)
              ELSE @ ]

\* the effects of one get_status call
get_status(cfg, inst, resolvedNow) ==
    IF _should_run_pre_validation(cfg, inst)
    THEN get_status_enabled(cfg, inst, resolvedNow)
    ELSE get_status_skipped(inst)

----------------------------------------------------------------------------
(* pc_pre_validation_cli *)

\* the members of CloudProvider
CloudProviders == { "AWS", "GCP" }

\* ValidationResult, and a value that is neither SUCCESS nor FAILED
ValidationResults == { "SUCCESS", "FAILED", "UNKNOWN" }

Reports == { <<>>, <<"o", "k">>, <<"b", "a", "d">> }

NoneStr == [present |-> FALSE, value |-> <<>>]

SomeStr(v) == [present |-> TRUE, value |-> v]

\* what docopt hands to the schema
Argvs ==
    [ input_file_path : InputPaths,
      cloud_provider : CloudProviders \cup { "azure" },
      region : Regions,
      access_key_id : { NoneStr, SomeStr(<<"k">>) },
      access_key_data : { NoneStr, SomeStr(<<"d">>) } ]

\* s.validate(docopt(__doc__)): CloudProvider[arg] raises for an unknown name
schema_valid(argv) == argv.cloud_provider \in CloudProviders

UnknownResultMessage ==
    <<"Unknown validation result: {aggregated_result}.\n", "Validation report: {aggregated_report}">>

\* a main that takes every result that is not FAILED for a success
cli_main_lenient(argv, aggregated_result, aggregated_report) ==
    IF ~schema_valid(argv)
    THEN [ outcome |-> "raised", error |-> <<"SchemaError">>, stdout |-> <<>>,
           validators |-> <<>>, result |-> "none", report |-> <<>> ]
    ELSE LET parsed == << <<"Parsed pc_pre_validation_cli arguments">> >>
             validators == << "InputDataValidator", "BinaryFileValidator" >>
         IN  IF aggregated_result = "FAILED"
             THEN [ outcome |-> "raised", error |-> aggregated_report,
                    stdout |-> parsed, validators |-> validators,
                    result |-> aggregated_result, report |-> aggregated_report ]
             ELSE [ outcome |-> "clean", error |-> <<>>,
                    stdout |-> Append(parsed, <<"Success: ">> \o aggregated_report),
                    validators |-> validators,
                    result |-> aggregated_result, report |-> aggregated_report ]

\* the effects of one run of main, given what run_validators returns
cli_main(argv, aggregated_result, aggregated_report) ==
    IF ~schema_valid(argv)
    THEN [ outcome |-> "raised", error |-> <<"SchemaError">>, stdout |-> <<>>,
           validators |-> <<>>, result |-> "none", report |-> <<>> ]
    ELSE LET parsed == << <<"Parsed pc_pre_validation_cli arguments">> >>
             validators == << "InputDataValidator", "BinaryFileValidator" >>
         IN  IF aggregated_result = "FAILED"
             THEN [ outcome |-> "raised", error |-> aggregated_report,
                    stdout |-> parsed, validators |-> validators,
                    result |-> aggregated_result, report |-> aggregated_report ]
             ELSE IF aggregated_result = "SUCCESS"
             THEN [ outcome |-> "clean", error |-> <<>>,
                    stdout |-> Append(parsed, <<"Success: ">> \o aggregated_report),
                    validators |-> validators,
                    result |-> aggregated_result, report |-> aggregated_report ]
             ELSE [ outcome |-> "raised", error |-> UnknownResultMessage,
                    stdout |-> parsed, validators |-> validators,
                    result |-> aggregated_result, report |-> aggregated_report ]

NoCli ==
    [ ran |-> FALSE,
      argv |-> [ input_file_path |-> <<>>, cloud_provider |-> "none",
                 region |-> <<>>, access_key_id |-> NoneStr,
                 access_key_data |-> NoneStr ],
      outcome |-> "none", error |-> <<>>, stdout |-> <<>>, validators |-> <<>>,
      result |-> "none", report |-> <<>> ]

----------------------------------------------------------------------------
(* The state machine *)

NoCall ==
    [ op |-> "none", gate |-> FALSE, before |-> <<>>, outcome |-> "none",
      result |-> "none", starts |-> 0, request |-> NoRequest,
      container |-> NoneContainer, agg |-> "none", aggCalls |-> 0,
      histRead |-> FALSE, seen |-> <<>>, task_id |-> <<>>, clusterCalls |-> 0,
      logs |-> <<>>, resolved |-> "none", answer |-> "none", again |-> FALSE,
      prev_outcome |-> "none", prev_result |-> "none" ]

Init ==
    /\ config \in [ region : Regions,
                    pc_pre_validator_enabled : BOOLEAN,
                    data_validation_threshold_overrides : ThresholdOverrides ]
    /\ pc_instance \in [ instance_id : {InstanceId},
                         role : Roles,
                         input_path : InputPaths,
                         current_stage : StageNames,
                         instances : InitialHistories ]
    /\ resolved \in Statuses
    /\ accepted = <<>>
    /\ call = NoCall
    /\ cli = NoCli

\* the orchestrator calls run_async; the backend accepts or rejects the start
Run(accept, id) ==
    /\ LET r == run_async(config, pc_instance, accept, id)
       IN  /\ Len(r.instances) <= MaxHistory
           /\ pc_instance' = [pc_instance EXCEPT !.instances = r.instances]
           /\ accepted' = IF r.starts = 1 /\ ~r.raised
                          THEN Append(accepted, r.container) ELSE accepted
           /\ call' = [ NoCall EXCEPT
                          !.op = "run",
                          !.gate = _should_run_pre_validation(config, pc_instance),
                          !.before = pc_instance.instances,
                          !.outcome = IF r.raised THEN "raised" ELSE "returned",
                          !.starts = r.starts,
                          !.request = r.request,
                          !.container = r.container,
                          !.answer = IF r.starts = 0 THEN "none"
                                     ELSE IF accept THEN "accepted"
                                     ELSE "rejected" ]
    /\ UNCHANGED <<config, resolved, cli>>

\* the orchestrator calls get_status
Status ==
    /\ LET s == get_status(config, pc_instance, resolved)
       IN  /\ pc_instance' = [pc_instance EXCEPT !.instances = s.instances]
           /\ call' = [ NoCall EXCEPT
                          !.op = "status",
                          !.gate = _should_run_pre_validation(config, pc_instance),
                          !.before = pc_instance.instances,
                          !.outcome = s.outcome,
                          !.result = s.result,
                          !.agg = s.agg,
                          !.aggCalls = s.aggCalls,
                          !.histRead = s.histRead,
                          !.seen = s.seen,
                          !.task_id = s.task_id,
                          !.clusterCalls = s.clusterCalls,
                          !.logs = s.logs,
                          !.starts = s.starts,
                          !.resolved = resolved,
                          !.again = (call.op = "status" /\ call.resolved = resolved),
                          !.prev_outcome =
                              IF call.op = "status" /\ call.resolved = resolved
                              THEN call.outcome ELSE "none",
                          !.prev_result =
                              IF call.op = "status" /\ call.resolved = resolved
                              THEN call.result ELSE "none" ]
    /\ UNCHANGED <<config, resolved, accepted, cli>>

\* the remote job moves on: the status the collaborator resolves changes
BackendStep(st) ==
    /\ st # resolved
    /\ resolved' = st
    /\ UNCHANGED <<config, pc_instance, accepted, call, cli>>

Next ==
    \/ \E accept \in BOOLEAN, id \in ContainerIds : Run(accept, id)
    \/ Status
    \/ \E st \in Statuses : BackendStep(st)

Spec == Init /\ [][Next]_vars

\* the companion tool is a process of its own: the service stands still
InitCli ==
    /\ config = [ region |-> <<"u", "s">>, pc_pre_validator_enabled |-> TRUE,
                  data_validation_threshold_overrides |-> NoneOverrides ]
    /\ pc_instance = [ instance_id |-> InstanceId, role |-> "PARTNER",
                       input_path |-> <<"/", "x">>,
                       current_stage |-> "INPUT_DATA_VALIDATION",
                       instances |-> <<>> ]
    /\ resolved = "CREATED"
    /\ accepted = <<>>
    /\ call = NoCall
    /\ cli = NoCli

\* one run of main: the arguments given, and what run_validators returns
CliMain(argv, aggregated_result, aggregated_report) ==
    /\ LET m == cli_main(argv, aggregated_result, aggregated_report)
       IN  cli' = [ ran |-> TRUE, argv |-> argv, outcome |-> m.outcome,
                    error |-> m.error, stdout |-> m.stdout,
                    validators |-> m.validators, result |-> m.result,
                    report |-> m.report ]
    /\ UNCHANGED <<config, pc_instance, resolved, accepted, call>>

NextCli ==
    \E argv \in Argvs, r \in ValidationResults, t \in Reports :
        CliMain(argv, r, t)

SpecCli == InitCli /\ [][NextCli]_vars

----------------------------------------------------------------------------
(* The claims *)

\* the gate as the specification words it
GateTrue == config.pc_pre_validator_enabled /\ pc_instance.role = "PARTNER"

IsPrefix(a, b) == Len(a) <= Len(b) /\ SubSeq(b, 1, Len(a)) = a

\* C1: for an instance whose role is not PARTNER, or whose config has the
\* stage disabled, no run call issues a start request to the backend and
\* every run call returns with the stage history it found.
C1_GateFalseRunIsNoOp ==
    (~config.pc_pre_validator_enabled \/ pc_instance.role # "PARTNER") =>
        /\ accepted = <<>>
        /\ call.op = "run" =>
              /\ call.outcome = "returned"
              /\ call.starts = 0
              /\ call.answer = "none"
              /\ call.request = NoRequest
              /\ pc_instance.instances = call.before

C1_Witness ==
    /\ call.op = "run"
    /\ config.pc_pre_validator_enabled
    /\ pc_instance.role = "PUBLISHER"
    /\ pc_instance.instances # <<>>

\* C2: with the gate false, status returns INPUT_DATA_VALIDATION_COMPLETED
\* whatever the history and the backend report, and neither reads the history
\* nor calls the status-aggregation collaborator.
C2_GateFalseStatusIsCompleted ==
    (call.op = "status"
        /\ (~config.pc_pre_validator_enabled \/ pc_instance.role # "PARTNER")) =>
        /\ call.outcome = "returned"
        /\ call.result = INPUT_DATA_VALIDATION_COMPLETED
        /\ call.aggCalls = 0
        /\ call.agg = "none"
        /\ ~call.histRead
        /\ call.seen = <<>>
        /\ call.logs = <<>>

C2_Witness ==
    /\ call.op = "status"
    /\ ~GateTrue
    /\ call.resolved = INPUT_DATA_VALIDATION_FAILED
    /\ pc_instance.instances # <<>>
    /\ Last(pc_instance.instances).containers = <<>>

\* C3 as stated: with the gate true, every run call appends exactly one
\* StageState to the history.
C3_EveryGatedRunAppendsOne ==
    (call.op = "run" /\ GateTrue) =>
        /\ Len(pc_instance.instances) = Len(call.before) + 1
        /\ IsPrefix(call.before, pc_instance.instances)
        /\ Last(pc_instance.instances).kind = "StageStateInstance"

\* C3 amended: with the gate true, a run call that returns has appended
\* exactly one StageState to the history, and a run call whose start request
\* the backend rejected has appended none.
C3_ReturnedGatedRunAppendsOne ==
    (call.op = "run" /\ GateTrue) =>
        /\ call.outcome = "returned" =>
              /\ Len(pc_instance.instances) = Len(call.before) + 1
              /\ IsPrefix(call.before, pc_instance.instances)
              /\ Last(pc_instance.instances).kind = "StageStateInstance"
        /\ call.outcome = "raised" =>
              pc_instance.instances = call.before

C3_Witness ==
    /\ call.op = "run"
    /\ GateTrue
    /\ call.outcome = "returned"
    /\ call.before # <<>>
    /\ Len(pc_instance.instances) = 2

\* C4: when the backend rejects the start request, the error reaches the
\* caller of run, that run call has issued exactly one start request, and the
\* stage history is the one the call found.
C4_RejectedStartPropagates ==
    (call.op = "run" /\ call.answer = "rejected") =>
        /\ call.outcome = "raised"
        /\ call.starts = 1
        /\ pc_instance.instances = call.before
        /\ call.container = NoneContainer

C4_Witness ==
    /\ call.op = "run"
    /\ call.answer = "rejected"
    /\ call.before # <<>>
    /\ accepted # <<>>

\* the last job handle of the last StageState of a history, when there is one
HasLastHandle(hist) ==
    /\ hist # <<>>
    /\ Last(hist).kind = "StageStateInstance"
    /\ Last(hist).containers # <<>>
    /\ Last(Last(hist).containers).present

LastHandleId(hist) == Last(Last(hist).containers).instance_id

NoSlash(id) == \A i \in 1..Len(id) : id[i] # "/"

\* what follows the final "/" of an id; the whole id when it holds no "/"
AfterFinalSlash(id) ==
    IF NoSlash(id) THEN id
    ELSE LET k == CHOOSE j \in 1..Len(id) :
                      id[j] = "/" /\ \A m \in (j + 1)..Len(id) : id[m] # "/"
         IN  SubSeq(id, k + 1, Len(id))

\* the console link template with region, cluster and task id substituted
ConsoleLink(region, cluster, taskId) ==
    <<"https://">> \o region \o <<".console.aws.amazon.com/ecs/home?region=">>
        \o region \o <<"#/clusters/">> \o cluster \o <<"/tasks/">> \o taskId
        \o <<"/details">>

FailedWithHandle ==
    /\ call.op = "status"
    /\ GateTrue
    /\ call.agg = INPUT_DATA_VALIDATION_FAILED
    /\ HasLastHandle(call.before)

\* C5: with the gate true, status returns exactly the value the
\* status-aggregation collaborator produced, in every case.
C5_StatusReturnsCollaboratorValue ==
    (call.op = "status" /\ GateTrue) =>
        /\ call.aggCalls = 1
        /\ call.agg = call.resolved
        /\ call.outcome = "returned"
        /\ call.result = call.agg

\* C6: a status call leaves the stage history as it found it and issues no
\* start request, and a status call that directly follows another one, with
\* the backend state unchanged in between, ends the same way with the same
\* status value.
C6_StatusReadOnlyRepeatable ==
    call.op = "status" =>
        /\ pc_instance.instances = call.before
        /\ call.starts = 0
        /\ call.answer = "none"
        /\ call.again =>
              /\ call.outcome = call.prev_outcome
              /\ call.result = call.prev_result

C6_Witness ==
    /\ call.op = "status"
    /\ call.again
    /\ GateTrue
    /\ call.result = INPUT_DATA_VALIDATION_FAILED
    /\ call.logs # <<>>
    /\ Len(call.before) = 2

C8_NoSlashNoLink ==
    (FailedWithHandle /\ NoSlash(LastHandleId(call.before))) =>
        /\ call.clusterCalls = 0
        /\ call.logs = << ErrorLog(GenericMessage) >>

\* C8 amended: when status reaches the failure status and the id of the last
\* job handle holds no "/", the whole id is the task id: a non-empty id gets
\* the link built with it (the cluster name is requested once) and the message
\* with the link logged; only the empty id gets no link and the generic
\* message.
C8_NoSlashWholeIdIsTaskId ==
    (FailedWithHandle /\ NoSlash(LastHandleId(call.before))) =>
        LET id == LastHandleId(call.before)
        IN  /\ call.outcome = "returned"
            /\ call.task_id = id
            /\ id # <<>> =>
                  /\ call.clusterCalls = 1
                  /\ call.logs = << ErrorLog(LinkMessage(id,
                                       ConsoleLink(config.region, Cluster, id))) >>
            /\ id = <<>> =>
                  /\ call.clusterCalls = 0
                  /\ call.logs = << ErrorLog(GenericMessage) >>

C8_Witness ==
    /\ FailedWithHandle
    /\ LastHandleId(call.before) = <<"t">>
    /\ call.clusterCalls = 1

\* C9: with the gate true and the failure status, the task id is what follows
\* the final "/" of the id of the last job handle of the last StageState (the
\* whole id when it holds no "/"); when that task id is non-empty the logged
\* link is the console template with the configured region (twice), the
\* backend's cluster name and the task id; when it is empty no link is built.
C9_TaskIdAndLink ==
    FailedWithHandle =>
        LET t == AfterFinalSlash(LastHandleId(call.before))
        IN  /\ call.task_id = t
            /\ t # <<>> =>
                  /\ call.clusterCalls = 1
                  /\ call.logs = << ErrorLog(LinkMessage(t,
                                       ConsoleLink(config.region, Cluster, t))) >>
            /\ t = <<>> =>
                  /\ call.clusterCalls = 0
                  /\ call.logs = << ErrorLog(GenericMessage) >>

C9_Witness ==
    /\ FailedWithHandle
    /\ LastHandleId(call.before) = <<"a", "/", "b", "/", "t">>
    /\ call.task_id = <<"t">>
    /\ call.clusterCalls = 1

\* the three arguments every command starts with, joined by single spaces
CmdPrefix ==
    <<"--input-file-path=">> \o pc_instance.input_path
        \o <<" ", "--cloud-provider=AWS", " ", "--region=">> \o config.region

NoOverridesGiven ==
    \/ ~config.data_validation_threshold_overrides.present
    \/ config.data_validation_threshold_overrides.items = <<>>

\* C10: the command passed to the backend starts with
\* --input-file-path=<input path>, --cloud-provider=AWS, --region=<region>,
\* in this order, joined by single spaces; without threshold overrides it is
\* exactly those three arguments; and two run calls on the same config and
\* instance pass the same command.
C10_CommandEncoding ==
    /\ [](call.op = "run" /\ call.starts = 1 =>
            /\ IsPrefix(CmdPrefix, call.request.cmd_args)
            /\ NoOverridesGiven => call.request.cmd_args = CmdPrefix
            /\ ~NoOverridesGiven =>
                  /\ Len(call.request.cmd_args) > Len(CmdPrefix) + 1
                  /\ call.request.cmd_args[Len(CmdPrefix) + 1] = " ")
    /\ [][(call.op = "run" /\ call.starts = 1
              /\ call'.op = "run" /\ call'.starts = 1)
            => call'.request.cmd_args = call.request.cmd_args]_vars

C10_Witness ==
    /\ call.op = "run"
    /\ call.starts = 1
    /\ call.answer = "accepted"
    /\ NoOverridesGiven
    /\ pc_instance.input_path = <<"x", " ", "y">>
    /\ call.request.cmd_args =
          <<"--input-file-path=", "x", " ", "y", " ", "--cloud-provider=AWS",
            " ", "--region=", "u", "s">>

\* C11: the outcome of the companion tool follows the aggregated result:
\* FAILED ends in a failure that carries the aggregated report, SUCCESS prints
\* the success message and exits cleanly, every other value ends in an error,
\* and only SUCCESS leads to a clean exit.
C11_CliOutcome ==
    (cli.ran /\ schema_valid(cli.argv)) =>
        /\ cli.result = "FAILED" =>
              cli.outcome = "raised" /\ cli.error = cli.report
        /\ cli.result = "SUCCESS" =>
              /\ cli.outcome = "clean"
              /\ Last(cli.stdout) = <<"Success: ">> \o cli.report
        /\ cli.result \notin { "SUCCESS", "FAILED" } =>
              cli.outcome = "raised"
        /\ cli.outcome = "clean" => cli.result = "SUCCESS"

C11_Witness ==
    /\ cli.ran
    /\ cli.argv.cloud_provider = "AWS"
    /\ cli.result = "UNKNOWN"
    /\ cli.outcome = "raised"
    /\ cli.report = <<"b", "a", "d">>

\* C12: the gate is true iff the stage is enabled and the role is PARTNER,
\* and both paths follow it: run skips the launch exactly when the gate is
\* false, and status takes the skip shortcut exactly when the gate is false.
C12_GateSharedByBothPaths ==
    LET gate == config.pc_pre_validator_enabled /\ pc_instance.role = "PARTNER"
    IN  /\ call.op # "none" => call.gate = gate
        /\ call.op = "run" => (call.starts = 0 <=> ~gate)
        /\ call.op = "status" => (call.aggCalls = 0 <=> ~gate)
        /\ call.op = "status" =>
              (~call.histRead <=> ~gate)

C12_Witness ==
    /\ call.op = "status"
    /\ ~config.pc_pre_validator_enabled
    /\ pc_instance.role = "PARTNER"
    /\ call.aggCalls = 0
    /\ call.result = INPUT_DATA_VALIDATION_COMPLETED

\* C13: the stage history only grows at its end: in every step of run and
\* status, rejected launches included, the history before the step is a
\* prefix of the history after it.
C13_HistoryAppendOnly ==
    [][IsPrefix(pc_instance.instances, pc_instance.instances')]_vars

C13_Witness ==
    /\ call.op = "run"
    /\ call.answer = "rejected"
    /\ Len(accepted) = 1
    /\ Len(pc_instance.instances) = 2
    /\ pc_instance.instances[1] = OtherInstance(InstanceId)

\* C14: the records appended since the instance arrived are, in order, one
\* per start request the backend accepted, each holding the handle of its
\* launch; on an initially empty history the history is exactly that, and two
\* launches that got the same handle leave two records.
C14_OneRecordPerAcceptedStart ==
    \E h0 \in InitialHistories :
        pc_instance.instances =
            h0 \o [ i \in 1..Len(accepted) |->
                      StageStateInstance(pc_instance.instance_id,
                                         pc_instance.current_stage,
                                         << accepted[i] >>) ]

C14_Witness ==
    /\ Len(accepted) = 2
    /\ accepted[1] = accepted[2]
    /\ Len(pc_instance.instances) = 2
    /\ pc_instance.instances[1] = pc_instance.instances[2]

DigitValue(c) == CHOOSE d \in 0..9 : Digit(d) = c

RECURSIVE ParseNat(_)
\* the number a sequence of decimal digits writes
ParseNat(ds) ==
    IF Len(ds) = 1 THEN DigitValue(ds[1])
    ELSE 10 * ParseNat(SubSeq(ds, 1, Len(ds) - 1)) + DigitValue(ds[Len(ds)])

\* one "key": value member of a JSON object, with the blank that follows a comma
ParsePair(part) ==
    LET p == IF part[1] = " " THEN Tail(part) ELSE part
        q == CHOOSE j \in 2..Len(p) :
                 p[j] = "\"" /\ \A k \in 2..(j - 1) : p[k] # "\""
    IN  [ key |-> SubSeq(p, 2, q - 1),
          value |-> ParseNat(SubSeq(p, q + 3, Len(p))),
          wellFormed |-> p[1] = "\"" /\ p[q + 1] = ":" /\ p[q + 2] = " " ]

\* the members of a JSON object text, in the order of the text
ParseJsonObject(text) ==
    LET inner == SubSeq(text, 2, Len(text) - 1)
        parts == Split(inner, ",")
    IN  IF inner = <<>> THEN <<>>
        ELSE [ i \in 1..Len(parts) |->
                 [ key |-> ParsePair(parts[i]).key,
                   value |-> ParsePair(parts[i]).value ] ]

JsonWellFormed(text) ==
    /\ Len(text) >= 2
    /\ text[1] = "{"
    /\ text[Len(text)] = "}"
    /\ LET inner == SubSeq(text, 2, Len(text) - 1)
           parts == Split(inner, ",")
       IN  inner # <<>> =>
               \A i \in 1..Len(parts) : ParsePair(parts[i]).wellFormed

OverrideFlag == "--valid-threshold-override="

\* C15: the override flag is in the command iff the config carries a
\* non-empty mapping; it then appears once, as the last argument, and its
\* value is the JSON text of the mapping, keys in stored order, in single
\* quotes; with a missing or empty mapping the flag is absent.
C15_OverrideFlag ==
    (call.op = "run" /\ call.starts = 1) =>
        LET cmd == call.request.cmd_args
            at == { i \in 1..Len(cmd) : cmd[i] = OverrideFlag }
            mapping == config.data_validation_threshold_overrides
            given == mapping.present /\ mapping.items # <<>>
        IN  /\ Cardinality(at) = IF given THEN 1 ELSE 0
            /\ ~given => cmd = CmdPrefix
            /\ given =>
                  LET rest == SubSeq(cmd, Len(CmdPrefix) + 1, Len(cmd))
                      json == SubSeq(rest, 4, Len(rest) - 1)
                  IN  /\ IsPrefix(CmdPrefix, cmd)
                      /\ Len(rest) >= 6
                      /\ rest[1] = " "
                      /\ rest[2] = OverrideFlag
                      /\ rest[3] = "'"
                      /\ rest[Len(rest)] = "'"
                      /\ JsonWellFormed(json)
                      /\ ParseJsonObject(json) = mapping.items

C15_Witness ==
    /\ call.op = "run"
    /\ call.starts = 1
    /\ Len(config.data_validation_threshold_overrides.items) = 2
    /\ \E i \in 1..Len(call.request.cmd_args) :
           call.request.cmd_args[i] = OverrideFlag

\* C16: with the gate true and a last StageState that has no job handle (an
\* empty handle sequence, or a missing last handle), status completes without
\* error, returns the collaborator's status, and on the failure status logs
\* the generic message only, without a link.
C16_MissingHandleIsNoTaskId ==
    (/\ call.op = "status"
     /\ GateTrue
     /\ call.before # <<>>
     /\ Last(call.before).kind = "StageStateInstance"
     /\ \/ Last(call.before).containers = <<>>
        \/ ~Last(Last(call.before).containers).present) =>
        /\ call.outcome = "returned"
        /\ call.result = call.agg
        /\ call.task_id = <<>>
        /\ call.clusterCalls = 0
        /\ call.logs = IF call.agg = INPUT_DATA_VALIDATION_FAILED
                       THEN << ErrorLog(GenericMessage) >> ELSE <<>>

\* C17: every StageState run has appended carries the id of the owning
\* instance, the name of the instance's current stage, and exactly one handle,
\* the one the backend returned for the start request of that run.
C17_AppendedRecordFields ==
    LET n == Len(pc_instance.instances) - Len(accepted)
    IN  /\ n >= 0
        /\ \A i \in 1..Len(accepted) :
              LET rec == pc_instance.instances[n + i]
              IN  /\ rec.kind = "StageStateInstance"
                  /\ rec.instance_id = pc_instance.instance_id
                  /\ rec.stage_name = pc_instance.current_stage
                  /\ Len(rec.containers) = 1
                  /\ rec.containers[1].present
                  /\ rec.containers[1] = accepted[i]
        /\ (call.op = "run" /\ call.answer = "accepted") =>
              /\ call.container.present
              /\ Last(pc_instance.instances).containers = << call.container >>
              /\ Len(pc_instance.instances) = Len(call.before) + 1

C17_Witness ==
    /\ call.op = "run"
    /\ call.answer = "accepted"
    /\ pc_instance.current_stage = "PC_PRE_VALIDATION"
    /\ Len(pc_instance.instances) = 2
    /\ call.container.instance_id = <<"a", "/", "b", "/", "t">>

HeldByHistory(handle, hist) ==
    \E j \in 1..Len(hist) :
        hist[j].kind = "StageStateInstance" /\ hist[j].containers = << handle >>

C19_ErrorLogIffFailed ==
    call.op = "status" =>
        LET failing == GateTrue /\ call.resolved = INPUT_DATA_VALIDATION_FAILED
        IN  /\ failing => Len(call.logs) = 1
            /\ ~failing => call.logs = <<>> /\ call.clusterCalls = 0

EndsWithSlash(id) == id # <<>> /\ id[Len(id)] = "/"

\* C20: with the gate true and the failure status, when the id of the last
\* job handle ends with "/", or the last history entry is no StageState, or
\* the history is empty, the task id is empty: the cluster name is not
\* requested, no link is built, and the generic message alone is logged.
C20_EmptyTaskIdCases ==
    (/\ call.op = "status"
     /\ GateTrue
     /\ call.agg = INPUT_DATA_VALIDATION_FAILED
     /\ \/ call.before = <<>>
        \/ Last(call.before).kind # "StageStateInstance"
        \/ HasLastHandle(call.before) /\ EndsWithSlash(LastHandleId(call.before))) =>
        /\ call.outcome = "returned"
        /\ call.result = INPUT_DATA_VALIDATION_FAILED
        /\ call.task_id = <<>>
        /\ call.clusterCalls = 0
        /\ call.logs = << ErrorLog(GenericMessage) >>

C20_Witness ==
    /\ call.op = "status"
    /\ GateTrue
    /\ call.agg = INPUT_DATA_VALIDATION_FAILED
    /\ HasLastHandle(call.before)
    /\ LastHandleId(call.before) = <<"a", "/">>
    /\ call.logs = << ErrorLog(GenericMessage) >>

====
